---- MODULE Spec2Model ----
(***************************************************************************)
(* The tags-view registry of the admin shell                               *)
(* (management/web/src/layouts/components/TagsView/index.vue): the tab     *)
(* strip's visited views, the keep-alive cache, the context menu, and the  *)
(* navigations the close / refresh handlers hand to the router.            *)
(*                                                                         *)
(* Strings that the code takes apart or compares are modelled by their     *)
(* structure: a path "/kb/edit" is the sequence <<"kb", "edit">> of its    *)
(* segments ("/" is <<>>), a query is a set of <<key, value>> pairs, and a *)
(* fullPath "/kb/edit?id=1" is the record [path, query].                   *)
(***************************************************************************)
EXTENDS Integers, Sequences, FiniteSets, TLC

VARIABLES routes, route, pending, visitedViews, cachedViews, affixTags,
          selectedTag, visible, pc, last

\* the theme composable (common/composables/useTheme.ts)
VARIABLES storage, activeThemeName, rootClasses, cssVars, hasViewTransition,
          transitions, effectDue, themePc, themeLast

tagsVars == <<routes, route, pending, visitedViews, cachedViews, affixTags,
              selectedTag, visible, pc, last>>

themeVars == <<storage, activeThemeName, rootClasses, cssVars, hasViewTransition,
               transitions, effectDue, themePc, themeLast>>

\* the layout state the shell components read (app store, settings store,
\* useDevice) and the record of the last step that changed it
VARIABLES layoutMode, device, sidebar, shellLast

shellVars == <<layoutMode, device, sidebar, shellLast>>

vars == <<tagsVars, themeVars, shellVars>>

(***************************************************************************)
(* Bounds and values                                                       *)
(***************************************************************************)
\* number of distinct ?id=n query values the edit page is opened with
MaxId == 1

\* view transitions started and not yet called back by the browser
MaxTransitions == 2

\* window.innerWidth and window.innerHeight of the modelled viewport
InnerWidth == 2

InnerHeight == 1

NoName == ""
NoQuery == {}
HomeName == "Dashboard"
NoNav == [kind |-> "none", to |-> [path |-> <<>>, query |-> NoQuery]]
UndefinedFullPath == [path |-> <<"undefined">>, query |-> {<<"undefined", 0>>}]

Range(s) == {s[i] : i \in 1..Len(s)}

Paths(views) == [i \in 1..Len(views) |-> views[i].path]

PathSet(views) == {views[i].path : i \in 1..Len(views)}

Last(s) == s[Len(s)]

(***************************************************************************)
(* Route configuration (permissionStore.routes): a tree of route records.  *)
(***************************************************************************)
Rel(segs) == [abs |-> FALSE, segs |-> segs]

Abs(segs) == [abs |-> TRUE, segs |-> segs]

Leaf(p, name, affix) == [path |-> p, name |-> name, affix |-> affix, children |-> <<>>]

Node(p, kids) == [path |-> p, name |-> NoName, affix |-> FALSE, children |-> kids]

\* dashAffix: the home page is pinned; noticeAffix: an un-named route is
\* flagged affix as well
RouteTree(dashAffix, noticeAffix) ==
    << Node(Abs(<<>>), << Leaf(Rel(<<"dashboard">>), HomeName, dashAffix) >>),
       Node(Abs(<<"kb">>), << Leaf(Rel(<<"list">>), "KBList", FALSE),
                              Leaf(Rel(<<"edit">>), "KBEdit", FALSE) >>),
       Leaf(Abs(<<"notice">>), NoName, noticeAffix) >>

\* the usual tree (home pinned), one with nothing pinned, and one that also
\* flags the un-named route
RouteTrees == {RouteTree(TRUE, FALSE), RouteTree(FALSE, FALSE), RouteTree(TRUE, TRUE)}

(***************************************************************************)
(* Tag views and the router's view of the route tree                       *)
(***************************************************************************)
\* path.resolve(basePath, routePath) with the browser's working directory "/":
\* an absolute routePath wins, otherwise the segments are appended to basePath
PathResolve(basePath, routePath) ==
    IF routePath.abs THEN routePath.segs ELSE basePath.segs \o routePath.segs

\* the TagView copied from a resolved route location ({ ...view })
ViewOf(r) ==
    [path |-> r.path, fullPath |-> [path |-> r.path, query |-> r.query],
     name |-> r.name, query |-> r.query, affix |-> r.affix]

\* const selectedTag = ref<TagView>({})
EmptyTag ==
    [path |-> <<"undefined">>, fullPath |-> UndefinedFullPath,
     name |-> NoName, query |-> NoQuery, affix |-> FALSE]

\* the leaf records of the tree with the path the router matches them at
RECURSIVE Leaves(_, _)
Leaves(rs, base) ==
    IF rs = <<>> THEN {}
    ELSE LET r == Head(rs)
             p == PathResolve(base, r.path)
         IN (IF r.children = <<>>
                THEN {[path |-> p, name |-> r.name, affix |-> r.affix]}
                ELSE Leaves(r.children, Abs(p)))
            \cup Leaves(Tail(rs), base)

\* the locations a user can ask the router for
Locations ==
    {[path |-> <<"dashboard">>, query |-> NoQuery],
     [path |-> <<"kb", "list">>, query |-> NoQuery],
     [path |-> <<"notice">>, query |-> NoQuery]}
    \cup {[path |-> <<"kb", "edit">>, query |-> {<<"id", n>>}] : n \in 1..MaxId}

IsRedirect(to) == to.path # <<>> /\ Head(to.path) = "redirect"

\* the route a navigation to `to` ends at: "/" is redirected to the home
\* page, "/redirect/..." is the un-named remount page, anything else is the
\* leaf record with that path
Resolve(rs, to) ==
    IF IsRedirect(to)
    THEN [path |-> to.path, query |-> to.query, name |-> NoName, affix |-> FALSE]
    ELSE LET p == IF to.path = <<>> THEN <<"dashboard">> ELSE to.path
             r == CHOOSE l \in Leaves(rs, Abs(<<>>)) : l.path = p
         IN [path |-> p, query |-> to.query, name |-> r.name, affix |-> r.affix]

(***************************************************************************)
(* The component's functions.  A function that changes the store or calls  *)
(* the router maps a record st = [vv, cv, tr] (visited views, cached       *)
(* views, the calls made so far in order) to the record after it.          *)
(***************************************************************************)
Ev(e, to) == [e |-> e, to |-> to]

St0 == [vv |-> visitedViews, cv |-> cachedViews, tr |-> <<>>]

isActive(tag) == tag.path = route.path

isAffix(tag) == tag.affix

RECURSIVE filterAffixTags(_, _)
filterAffixTags(rs, basePath) ==
    IF rs = <<>> THEN <<>>
    ELSE LET r == Head(rs)
             tagPath == PathResolve(basePath, r.path)
             own == IF isAffix(r)
                    THEN << [path |-> tagPath,
                             fullPath |-> [path |-> tagPath, query |-> NoQuery],
                             name |-> r.name, query |-> NoQuery, affix |-> TRUE] >>
                    ELSE <<>>
             childTags == IF r.children # <<>>
                          THEN filterAffixTags(r.children, r.path)
                          ELSE <<>>
         IN own \o childTags \o filterAffixTags(Tail(rs), basePath)

\* ---- tags-view store ----
addVisitedView(st, view) ==
    [st EXCEPT !.vv = IF view.path \in PathSet(@) THEN @ ELSE Append(@, view),
               !.tr = Append(@, Ev("addVisitedView", view.fullPath))]

addCachedView(st, view) ==
    [st EXCEPT !.cv = IF view.name = NoName \/ view.name \in Range(@)
                      THEN @ ELSE Append(@, view.name),
               !.tr = Append(@, Ev("addCachedView", view.fullPath))]

delVisitedView(st, view) ==
    [st EXCEPT !.vv = SelectSeq(@, LAMBDA v : v.path # view.path),
               !.tr = Append(@, Ev("delVisitedView", view.fullPath))]

delCachedView(st, view) ==
    [st EXCEPT !.cv = SelectSeq(@, LAMBDA n : n # view.name),
               !.tr = Append(@, Ev("delCachedView", view.fullPath))]

AffixNames(views) == {views[i].name : i \in {j \in 1..Len(views) : isAffix(views[j])}}

delOthersVisitedViews(st, view) ==
    [st EXCEPT !.vv = SelectSeq(@, LAMBDA v : isAffix(v) \/ v.path = view.path),
               !.tr = Append(@, Ev("delOthersVisitedViews", view.fullPath))]

delOthersCachedViews(st, view) ==
    [st EXCEPT !.cv = SelectSeq(@, LAMBDA n : n = view.name \/ n \in AffixNames(st.vv)),
               !.tr = Append(@, Ev("delOthersCachedViews", view.fullPath))]

delAllVisitedViews(st) ==
    [st EXCEPT !.vv = SelectSeq(@, isAffix),
               !.tr = Append(@, Ev("delAllVisitedViews", UndefinedFullPath))]

delAllCachedViews(st) ==
    [st EXCEPT !.cv = SelectSeq(@, LAMBDA n : n \in AffixNames(st.vv)),
               !.tr = Append(@, Ev("delAllCachedViews", UndefinedFullPath))]

\* ---- router ----
routerPush(st, to) == [st EXCEPT !.tr = Append(@, Ev("push", to))]

routerReplace(st, to) == [st EXCEPT !.tr = Append(@, Ev("replace", to))]

\* "/redirect" + view.path, with view.query
RedirectTo(view) == [path |-> <<"redirect">> \o view.path, query |-> view.query]

Root == [path |-> <<>>, query |-> NoQuery]

\* fullPath !== route.path: a fullPath string equals a path string exactly
\* when it is that path and carries no query string
FullPathIsPath(fullPath, p) == fullPath = [path |-> p, query |-> NoQuery]

\* ---- TagsView/index.vue ----
\* for (const tag of tags) tag.name && tagsViewStore.addVisitedView(tag)
RECURSIVE initTags(_, _)
initTags(st, tags) ==
    IF tags = <<>> THEN st
    ELSE initTags(IF Head(tags).name # NoName THEN addVisitedView(st, Head(tags)) ELSE st,
                  Tail(tags))

\* addTags pushing onto the list itself, without the store's look-up by path
addTags_NoLookup(st, r) ==
    IF r.name # NoName
    THEN addCachedView([st EXCEPT !.vv = Append(@, ViewOf(r)),
                                  !.tr = Append(@, Ev("addVisitedView", ViewOf(r).fullPath))],
                       ViewOf(r))
    ELSE st

\* addTags moving a view that is registered again to the end of the list
addTags_MoveToEnd(st, r) ==
    IF r.name # NoName
    THEN addCachedView(addVisitedView(delVisitedView(st, ViewOf(r)), ViewOf(r)), ViewOf(r))
    ELSE st

\* addTags without the route.name test
addTags_NoNameTest(st, r) ==
    addCachedView(addVisitedView(st, ViewOf(r)), ViewOf(r))

\* addTags that forgets tagsViewStore.addCachedView
addTags_VisitedOnly(st, r) ==
    IF r.name # NoName
    THEN addVisitedView(st, ViewOf(r))
    ELSE st

addTags(st, r) ==
    IF r.name # NoName
    THEN addCachedView(addVisitedView(st, ViewOf(r)), ViewOf(r))
    ELSE st

\* refreshSelectedTag closing the tab as well
refreshSelectedTag_ClosesTab(st, view) ==
    routerReplace(delCachedView(delVisitedView(st, view), view), RedirectTo(view))

refreshSelectedTag(st, view) ==
    routerReplace(delCachedView(st, view), RedirectTo(view))

\* toLastView taking the first entry (slice(0, 1)) instead of the last
toLastView_First(st, views, view) ==
    IF views # <<>> /\ Head(views).fullPath # UndefinedFullPath
    THEN routerPush(st, Head(views).fullPath)
    ELSE IF view.name = HomeName
         THEN routerPush(st, RedirectTo(view))
         ELSE routerPush(st, Root)

\* toLastView without the remount of the home page
toLastView_NoRemount(st, views, view) ==
    IF views # <<>> /\ Last(views).fullPath # UndefinedFullPath
    THEN routerPush(st, Last(views).fullPath)
    ELSE routerPush(st, Root)

toLastView(st, views, view) ==
    IF views # <<>> /\ Last(views).fullPath # UndefinedFullPath
    THEN routerPush(st, Last(views).fullPath)
    ELSE IF view.name = HomeName
         THEN routerPush(st, RedirectTo(view))
         ELSE routerPush(st, Root)

\* closeSelectedTag without the isActive(view) test
\* closeSelectedTag without its delCachedView(view)
closeSelectedTag_KeepsCache(st, view) ==
    LET s1 == delVisitedView(st, view)
    IN IF isActive(view) THEN toLastView(s1, s1.vv, view) ELSE s1

\* closeSelectedTag that never calls toLastView
closeSelectedTag_NeverRedirects(st, view) ==
    delCachedView(delVisitedView(st, view), view)

closeSelectedTag_AlwaysRedirects(st, view) ==
    LET s1 == delCachedView(delVisitedView(st, view), view)
    IN toLastView(s1, s1.vv, view)

closeSelectedTag(st, view) ==
    LET s1 == delCachedView(delVisitedView(st, view), view)
    IN IF isActive(view) THEN toLastView(s1, s1.vv, view) ELSE s1

closeOthersTags(st) ==
    LET fullPath == selectedTag.fullPath
        s1 == IF ~FullPathIsPath(fullPath, route.path) /\ fullPath # UndefinedFullPath
              THEN routerPush(st, fullPath)
              ELSE st
    IN delOthersCachedViews(delOthersVisitedViews(s1, selectedTag), selectedTag)

\* closeAllTags sparing the view it was called with, as closeOthersTags does
closeAllTags_KeepsView(st, view) ==
    LET s1 == delAllCachedViews(delOthersVisitedViews(st, view))
    IN IF \E i \in 1..Len(affixTags) : affixTags[i].path = route.path
       THEN s1
       ELSE toLastView(s1, s1.vv, view)

closeAllTags(st, view) ==
    LET s1 == delAllCachedViews(delAllVisitedViews(st))
    IN IF \E i \in 1..Len(affixTags) : affixTags[i].path = route.path
       THEN s1
       ELSE toLastView(s1, s1.vv, view)

(***************************************************************************)
(* State machine                                                           *)
(***************************************************************************)
IsNav(ev) == ev.e \in {"push", "replace"}

\* the navigations a handler handed to the router, in order
Navs(tr) == SelectSeq(tr, IsNav)

\* no refresh under way
NoRefresh == [stage |-> 0, view |-> EmptyTag, vv |-> <<>>]

\* how far the remount that a refresh started has come when the step `op`
\* is done: 1 after refreshSelectedTag, 2 when the router has arrived at the
\* redirect page, 3 when it has arrived back at the view; any other step in
\* between ends the bookkeeping
RefreshStage(op, view) ==
    IF op = "menuRefresh"
    THEN [stage |-> 1, view |-> view, vv |-> visitedViews]
    ELSE IF op = "register" /\ last.rf.stage \in {1, 2}
         THEN [last.rf EXCEPT !.stage = @ + 1]
         ELSE NoRefresh

\* the record of a step: the operation, the view it was given, the visited
\* views before it, whether that view's name was cached before it, and the
\* store and router calls it made, and the progress of a refresh
Rec(op, view, tr) ==
    [op |-> op, view |-> view, vv |-> visitedViews,
     cached |-> view.name \in Range(cachedViews), tr |-> tr,
     rf |-> RefreshStage(op, view)]

\* the store after a handler ran, the navigation it left pending (a later
\* navigation supersedes an unfinished one) and the record of the step
Commit(op, view, st) ==
    /\ visitedViews' = st.vv
    /\ cachedViews' = st.cv
    /\ pending' = IF Navs(st.tr) = <<>> THEN pending
                  ELSE [kind |-> Last(Navs(st.tr)).e, to |-> Last(Navs(st.tr)).to]
    /\ last' = Rec(op, view, st.tr)

InitTagsView ==
    /\ routes \in RouteTrees
    /\ route \in {Resolve(routes, l) : l \in Locations}
    /\ pending = NoNav
    /\ visitedViews = <<>>
    /\ cachedViews = <<>>
    /\ affixTags = <<>>
    /\ selectedTag = EmptyTag
    /\ visible = FALSE
    /\ pc = "init"
    /\ last = [op |-> "none", view |-> EmptyTag, vv |-> <<>>, cached |-> FALSE, tr |-> <<>>,
              rf |-> NoRefresh]

(***************************************************************************)
(* Theme composable                                                        *)
(***************************************************************************)
DEFAULT_THEME_NAME == "normal"

\* themeList.map(item => item.name)
ThemeNames == {DEFAULT_THEME_NAME, "dark", "dark-blue"}

\* localStorage.getItem of a key that was never written
NullItem == "<null>"

\* what the storage key can hold when the application starts
StoredValues == {NullItem, "", "bogus-theme"} \cup ThemeNames

\* the values setTheme can be handed (the type ThemeName is not checked at run time)
AppliedValues == ThemeNames \cup {"bogus-theme"}

getActiveThemeName(stored) == stored

\* getActiveThemeName() || DEFAULT_THEME_NAME: null and "" are falsy
InitialThemeName(stored) ==
    IF getActiveThemeName(stored) \in {NullItem, ""}
    THEN DEFAULT_THEME_NAME
    ELSE getActiveThemeName(stored)

Max(a, b) == IF a >= b THEN a ELSE b

Min(a, b) == IF a <= b THEN a ELSE b

\* the radius to the nearest corner instead of the farthest
MaxRadiusSquared_Nearest(clientX, clientY) ==
    Min(clientX, InnerWidth - clientX) * Min(clientX, InnerWidth - clientX)
    + Min(clientY, InnerHeight - clientY) * Min(clientY, InnerHeight - clientY)

\* Math.hypot(dx, dy) squared
MaxRadiusSquared(clientX, clientY) ==
    Max(clientX, InnerWidth - clientX) * Max(clientX, InnerWidth - clientX)
    + Max(clientY, InnerHeight - clientY) * Max(clientY, InnerHeight - clientY)

\* the sidebar palette setTheme writes for a theme value
SidebarPalette(value) ==
    IF value = "dark" THEN "#e8e8e8"
    ELSE IF value = "dark-blue" THEN "#f9f0e6"
    ELSE "#ffffff"

addHtmlClass(classes, value) == classes \cup {value}

\* removeHtmlClass that removes nothing
removeHtmlClass_Nothing(classes, value) == classes

removeHtmlClass(classes, value) ==
    classes \ {name \in ThemeNames : name # value}

setActiveThemeName(value) == value

\* the record of a step: the value handled, the theme and the root's classes
\* before it, and the root's classes between the statements of the step
\* (mid; a step that does not touch the root leaves them as they were)
ThemeRec(op, value) ==
    [op |-> op, value |-> value, before |-> activeThemeName, classes |-> rootClasses,
     mid |-> rootClasses]

InitTheme ==
    /\ storage \in StoredValues
    /\ activeThemeName = InitialThemeName(storage)
    /\ rootClasses = {}
    /\ cssVars = [x |-> 0, y |-> 0, r2 |-> 0, sidebar |-> "unset"]
    /\ hasViewTransition \in BOOLEAN
    /\ transitions = <<>>
    /\ effectDue = FALSE
    /\ themePc = "loaded"
    /\ themeLast = [op |-> "load", value |-> storage, before |-> storage, classes |-> {}, mid |-> {}]

\* the effect without its setActiveThemeName(value)
Effect_NoPersist(op) ==
    /\ rootClasses' = addHtmlClass(removeHtmlClass(rootClasses, activeThemeName), activeThemeName)
    /\ effectDue' = FALSE
    /\ themeLast' = [ThemeRec(op, activeThemeName) EXCEPT
                        !.mid = removeHtmlClass(rootClasses, activeThemeName)]
    /\ UNCHANGED <<storage, activeThemeName, cssVars, hasViewTransition, transitions>>

\* the effect with addHtmlClass(value) before removeHtmlClass(value)
Effect_AddFirst(op) ==
    /\ rootClasses' = removeHtmlClass(addHtmlClass(rootClasses, activeThemeName), activeThemeName)
    /\ storage' = setActiveThemeName(activeThemeName)
    /\ effectDue' = FALSE
    /\ themeLast' = [ThemeRec(op, activeThemeName) EXCEPT
                        !.mid = addHtmlClass(rootClasses, activeThemeName)]
    /\ UNCHANGED <<activeThemeName, cssVars, hasViewTransition, transitions>>

\* the body of the watchEffect
Effect(op) ==
    /\ rootClasses' = addHtmlClass(removeHtmlClass(rootClasses, activeThemeName), activeThemeName)
    /\ storage' = setActiveThemeName(activeThemeName)
    /\ effectDue' = FALSE
    /\ themeLast' = [ThemeRec(op, activeThemeName) EXCEPT
                        !.mid = removeHtmlClass(rootClasses, activeThemeName)]
    /\ UNCHANGED <<activeThemeName, cssVars, hasViewTransition, transitions>>

\* initTheme(): watchEffect runs its body at once
initTheme ==
    /\ themePc = "loaded"
    /\ themePc' = "watching"
    /\ Effect("initTheme")

\* the effect re-runs after activeThemeName changed
RunEffect ==
    /\ themePc = "watching"
    /\ effectDue
    /\ Effect("effect")
    /\ UNCHANGED themePc

\* setTheme that always calls handler() itself
setTheme_AlwaysSync(clientX, clientY, value) ==
    /\ themePc = "watching"
    /\ cssVars' = [x |-> clientX, y |-> clientY, r2 |-> MaxRadiusSquared(clientX, clientY),
                   sidebar |-> SidebarPalette(value)]
    /\ activeThemeName' = value
    /\ effectDue' = (effectDue \/ value # activeThemeName)
    /\ UNCHANGED transitions
    /\ themeLast' = ThemeRec("setTheme", value)
    /\ UNCHANGED <<storage, rootClasses, hasViewTransition, themePc>>

\* setTheme({ clientX, clientY }, value): with document.startViewTransition
\* the handler is handed to the browser, which calls it later; without it the
\* handler runs before setTheme returns
setTheme(clientX, clientY, value) ==
    /\ themePc = "watching"
    /\ cssVars' = [x |-> clientX, y |-> clientY, r2 |-> MaxRadiusSquared(clientX, clientY),
                   sidebar |-> SidebarPalette(value)]
    /\ IF hasViewTransition
       THEN /\ Len(transitions) < MaxTransitions
            /\ transitions' = Append(transitions, value)
            /\ UNCHANGED <<activeThemeName, effectDue>>
       ELSE /\ activeThemeName' = value
            /\ effectDue' = (effectDue \/ value # activeThemeName)
            /\ UNCHANGED transitions
    /\ themeLast' = ThemeRec("setTheme", value)
    /\ UNCHANGED <<storage, rootClasses, hasViewTransition, themePc>>

\* the browser calls the handler of the oldest started view transition
TransitionCallback ==
    /\ transitions # <<>>
    /\ activeThemeName' = Head(transitions)
    /\ effectDue' = (effectDue \/ Head(transitions) # activeThemeName)
    /\ transitions' = Tail(transitions)
    /\ themeLast' = ThemeRec("handler", Head(transitions))
    /\ UNCHANGED <<storage, rootClasses, cssVars, hasViewTransition, themePc>>

ThemeNext ==
    \/ initTheme /\ UNCHANGED <<tagsVars, shellVars>>
    \/ RunEffect /\ UNCHANGED <<tagsVars, shellVars>>
    \/ \E x \in 0..InnerWidth, y \in 0..InnerHeight, value \in AppliedValues :
           setTheme(x, y, value) /\ UNCHANGED <<tagsVars, shellVars>>
    \/ TransitionCallback /\ UNCHANGED <<tagsVars, shellVars>>

\* the tags view before its set-up, in the usual route tree
TagsViewIdle ==
    /\ routes = RouteTree(TRUE, FALSE)
    /\ route = Resolve(routes, [path |-> <<"dashboard">>, query |-> NoQuery])
    /\ pending = NoNav
    /\ visitedViews = <<>>
    /\ cachedViews = <<>>
    /\ affixTags = <<>>
    /\ selectedTag = EmptyTag
    /\ visible = FALSE
    /\ pc = "init"
    /\ last = [op |-> "none", view |-> EmptyTag, vv |-> <<>>, cached |-> FALSE, tr |-> <<>>,
              rf |-> NoRefresh]

\* the theme as loaded from an empty storage and left alone
ThemeIdle ==
    /\ storage = NullItem
    /\ activeThemeName = InitialThemeName(NullItem)
    /\ rootClasses = {}
    /\ cssVars = [x |-> 0, y |-> 0, r2 |-> 0, sidebar |-> "unset"]
    /\ hasViewTransition = FALSE
    /\ transitions = <<>>
    /\ effectDue = FALSE
    /\ themePc = "loaded"
    /\ themeLast = [op |-> "load", value |-> NullItem, before |-> NullItem, classes |-> {}, mid |-> {}]

\* the shell on a desktop in left mode with the sidebar opened, left alone
ShellIdle ==
    /\ layoutMode = "left"
    /\ device = "desktop"
    /\ sidebar = [opened |-> TRUE, withoutAnimation |-> FALSE]
    /\ shellLast = [op |-> "none", opened |-> TRUE, scrim |-> FALSE]

Init == InitTagsView /\ ThemeIdle /\ ShellIdle

\* the theme engine on its own: the tab strip is left alone
ThemeOnlyInit == TagsViewIdle /\ InitTheme /\ ShellIdle

SpecTheme == ThemeOnlyInit /\ [][ThemeNext]_vars

\* <script setup>: initTags(), then the route listener is registered and
\* called at once with the current route
Setup_RegisterFirst ==
    /\ pc = "init"
    /\ pc' = "ready"
    /\ affixTags' = filterAffixTags(routes, Abs(<<>>))
    /\ Commit("setup", EmptyTag,
              initTags(addTags(St0, route), filterAffixTags(routes, Abs(<<>>))))
    /\ UNCHANGED <<routes, route, selectedTag, visible>>

Setup ==
    /\ pc = "init"
    /\ pc' = "ready"
    /\ affixTags' = filterAffixTags(routes, Abs(<<>>))
    /\ Commit("setup", EmptyTag,
              addTags(initTags(St0, filterAffixTags(routes, Abs(<<>>))), route))
    /\ UNCHANGED <<routes, route, selectedTag, visible>>

\* the shell switches to another arrangement (left, top, mixed): the tab
\* strip of the old one is unmounted and the new arrangement's own TagsView
\* is set up, with fresh local state, on the same store and router
Remount ==
    /\ pc = "ready"
    /\ affixTags' = filterAffixTags(routes, Abs(<<>>))
    /\ selectedTag' = EmptyTag
    /\ visible' = FALSE
    /\ Commit("remount", EmptyTag,
              addTags(initTags(St0, filterAffixTags(routes, Abs(<<>>))), route))
    /\ UNCHANGED <<routes, route, pc>>

\* a navigation from outside the tab strip (address bar, history, a page)
Navigate(loc) ==
    /\ pc = "ready"
    /\ Commit("navigate", EmptyTag, routerPush(St0, loc))
    /\ UNCHANGED <<routes, route, affixTags, selectedTag, visible, pc>>

\* a click on a tab: <router-link :to="{ path: tag.path, query: tag.query }">;
\* the click reaches document.body, which closes an open context menu
ClickTag(tag) ==
    /\ pc = "ready"
    /\ Commit("clickTag", tag, routerPush(St0, [path |-> tag.path, query |-> tag.query]))
    /\ visible' = FALSE
    /\ UNCHANGED <<routes, route, affixTags, selectedTag, pc>>

\* the router finishes the pending navigation: the current route changes and
\* the listener registers it; the remount page at once replaces itself by
\* the path it was given
NavComplete ==
    /\ pc = "ready"
    /\ pending.kind # "none"
    /\ route' = Resolve(routes, pending.to)
    /\ visitedViews' = addTags(St0, route').vv
    /\ cachedViews' = addTags(St0, route').cv
    /\ pending' = IF IsRedirect(pending.to)
                  THEN [kind |-> "replace",
                        to |-> [path |-> Tail(pending.to.path), query |-> pending.to.query]]
                  ELSE NoNav
    /\ last' = Rec("register", ViewOf(route'), addTags(St0, route').tr)
    /\ UNCHANGED <<routes, affixTags, selectedTag, visible, pc>>

\* @contextmenu.prevent="openMenu(tag, $event)"
openMenu(tag) ==
    /\ pc = "ready"
    /\ visible' = TRUE
    /\ selectedTag' = tag
    /\ last' = Rec("openMenu", tag, <<>>)
    /\ UNCHANGED <<routes, route, pending, visitedViews, cachedViews, affixTags, pc>>

\* a click elsewhere on the page while the menu is open
closeMenu ==
    /\ pc = "ready"
    /\ visible
    /\ visible' = FALSE
    /\ last' = Rec("closeMenu", EmptyTag, <<>>)
    /\ UNCHANGED <<routes, route, pending, visitedViews, cachedViews, affixTags,
                   selectedTag, pc>>

\* the middle click without the !isAffix(tag) guard
ClickMiddle_NoAffixGuard(tag) ==
    /\ pc = "ready"
    /\ Commit("clickMiddle", tag, closeSelectedTag(St0, tag))
    /\ UNCHANGED <<routes, route, affixTags, selectedTag, visible, pc>>

\* @click.middle="!isAffix(tag) && closeSelectedTag(tag)"
ClickMiddle(tag) ==
    /\ pc = "ready"
    /\ Commit("clickMiddle", tag, IF ~isAffix(tag) THEN closeSelectedTag(St0, tag) ELSE St0)
    /\ UNCHANGED <<routes, route, affixTags, selectedTag, visible, pc>>

\* <el-icon v-if="!isAffix(tag)" @click.prevent.stop="closeSelectedTag(tag)">:
\* .stop keeps the click from document.body, so an open menu stays open
ClickCloseIcon(tag) ==
    /\ pc = "ready"
    /\ ~isAffix(tag)
    /\ Commit("clickCloseIcon", tag, closeSelectedTag(St0, tag))
    /\ UNCHANGED <<routes, route, affixTags, selectedTag, visible, pc>>

\* <li @click="refreshSelectedTag(selectedTag)">
MenuRefresh ==
    /\ pc = "ready"
    /\ visible
    /\ Commit("menuRefresh", selectedTag, refreshSelectedTag(St0, selectedTag))
    /\ visible' = FALSE
    /\ UNCHANGED <<routes, route, affixTags, selectedTag, pc>>

\* <li v-if="!isAffix(selectedTag)" @click="closeSelectedTag(selectedTag)">
MenuClose ==
    /\ pc = "ready"
    /\ visible
    /\ ~isAffix(selectedTag)
    /\ Commit("menuClose", selectedTag, closeSelectedTag(St0, selectedTag))
    /\ visible' = FALSE
    /\ UNCHANGED <<routes, route, affixTags, selectedTag, pc>>

\* <li @click="closeOthersTags">
MenuCloseOthers ==
    /\ pc = "ready"
    /\ visible
    /\ Commit("menuCloseOthers", selectedTag, closeOthersTags(St0))
    /\ visible' = FALSE
    /\ UNCHANGED <<routes, route, affixTags, selectedTag, pc>>

\* <li @click="closeAllTags(selectedTag)">
MenuCloseAll ==
    /\ pc = "ready"
    /\ visible
    /\ Commit("menuCloseAll", selectedTag, closeAllTags(St0, selectedTag))
    /\ visible' = FALSE
    /\ UNCHANGED <<routes, route, affixTags, selectedTag, pc>>

Next ==
    \/ Setup /\ UNCHANGED <<themeVars, shellVars>>
    \/ Remount /\ UNCHANGED <<themeVars, shellVars>>
    \/ \E loc \in Locations : Navigate(loc) /\ UNCHANGED <<themeVars, shellVars>>
    \/ \E tag \in Range(visitedViews) : ClickTag(tag) /\ UNCHANGED <<themeVars, shellVars>>
    \/ NavComplete /\ UNCHANGED <<themeVars, shellVars>>
    \/ \E tag \in Range(visitedViews) : openMenu(tag) /\ UNCHANGED <<themeVars, shellVars>>
    \/ closeMenu /\ UNCHANGED <<themeVars, shellVars>>
    \/ \E tag \in Range(visitedViews) : ClickMiddle(tag) /\ UNCHANGED <<themeVars, shellVars>>
    \/ \E tag \in Range(visitedViews) : ClickCloseIcon(tag) /\ UNCHANGED <<themeVars, shellVars>>
    \/ MenuRefresh /\ UNCHANGED <<themeVars, shellVars>>
    \/ MenuClose /\ UNCHANGED <<themeVars, shellVars>>
    \/ MenuCloseOthers /\ UNCHANGED <<themeVars, shellVars>>
    \/ MenuCloseAll /\ UNCHANGED <<themeVars, shellVars>>

Spec == Init /\ [][Next]_vars

(***************************************************************************)
(* filterAffixTags on its own: the function applied once to route trees    *)
(* three levels deep, with any mix of affix flags and a middle route whose *)
(* path is written relative or absolute.                                   *)
(***************************************************************************)
RouteRecord(p, name, affix, kids) ==
    [path |-> p, name |-> name, affix |-> affix, children |-> kids]

\* "/" > dashboard, and "/kb" > list, "/kb" > midPath > pinned; a[i] is the
\* affix flag of the i-th route in depth-first order that carries one
DeepTree(midPath, a) ==
    << RouteRecord(Abs(<<>>), NoName, FALSE,
                   << Leaf(Rel(<<"dashboard">>), HomeName, a[1]) >>),
       RouteRecord(Abs(<<"kb">>), "KB", a[2],
                   << Leaf(Rel(<<"list">>), "KBList", a[3]),
                      RouteRecord(midPath, "KBDocs", a[4],
                                  << Leaf(Rel(<<"pinned">>), "KBPinned", a[5]) >>) >>) >>

DeepTrees ==
    {DeepTree(m, a) : m \in {Rel(<<"docs">>), Abs(<<"kb", "docs">>)},
                      a \in [1..5 -> BOOLEAN]}

InitAffix ==
    /\ routes \in DeepTrees
    /\ route = Resolve(routes, [path |-> <<"dashboard">>, query |-> NoQuery])
    /\ pending = NoNav
    /\ visitedViews = <<>>
    /\ cachedViews = <<>>
    /\ affixTags = <<>>
    /\ selectedTag = EmptyTag
    /\ visible = FALSE
    /\ pc = "init"
    /\ last = [op |-> "none", view |-> EmptyTag, vv |-> <<>>, cached |-> FALSE, tr |-> <<>>,
              rf |-> NoRefresh]

\* affixTags = filterAffixTags(permissionStore.routes)
ApplyFilterAffixTags ==
    /\ pc = "init"
    /\ pc' = "filtered"
    /\ affixTags' = filterAffixTags(routes, Abs(<<>>))
    /\ UNCHANGED <<routes, route, pending, visitedViews, cachedViews,
                   selectedTag, visible, last>>

AffixNext == ApplyFilterAffixTags /\ UNCHANGED <<themeVars, shellVars>>

AffixOnlyInit == InitAffix /\ ThemeIdle /\ ShellIdle

SpecAffix == AffixOnlyInit /\ [][AffixNext]_vars

(***************************************************************************)
(* The shell: the sidebar menu (Sidebar), the navigation bar and the three *)
(* layout arrangements, as functions of the layout state and the route.    *)
(***************************************************************************)
LayoutModes == {"left", "top", "left-top"}

Devices == {"desktop", "mobile"}

\* a value of route.meta.activeMenu: not set, the empty string, or a path
Undefined == [kind |-> "undefined"]

EmptyString == [kind |-> "empty"]

PathString(p) == [kind |-> "path", segs |-> p]

\* JavaScript truthiness of such a value
Truthy(v) == v.kind = "path"

\* the routes the menu is shown for: a detail page can carry the override
ShellRoutes ==
    {[path |-> p, query |-> NoQuery, name |-> "Page", affix |-> FALSE, activeMenu |-> m] :
        p \in {<<"dashboard">>, <<"kb", "list">>, <<"kb", "edit">>},
        m \in {Undefined, EmptyString, PathString(<<"kb", "list">>)}}

\* useDevice
isMobile == device = "mobile"

\* useLayoutMode
isLeft == layoutMode = "left"

isTop == layoutMode = "top"

isLeftTop == layoutMode = "left-top"

\* the menu key without the override
activeMenu_PathOnly == PathString(route.path)

\* const activeMenu = computed(() => route.meta.activeMenu || route.path)
activeMenu ==
    IF Truthy(route.activeMenu) THEN route.activeMenu ELSE PathString(route.path)

\* const isCollapse = computed(() => !appStore.sidebar.opened)
isCollapse == ~sidebar.opened

\* <el-menu :collapse="isCollapse && !isTop">
MenuCollapse == isCollapse /\ ~isTop

\* the menu mode without the device test
MenuMode_IgnoresDevice == IF isTop THEN "horizontal" ELSE "vertical"

\* <el-menu :mode="isTop && !isMobile ? 'horizontal' : 'vertical'">
MenuMode == IF isTop /\ ~isMobile THEN "horizontal" ELSE "vertical"

\* the arrangement the shell composes: the left one on a mobile device
\* whatever the layout mode, otherwise the one of the layout mode
Arrangement ==
    IF isLeft \/ isMobile THEN "left"
    ELSE IF isTop THEN "top"
    ELSE "left-top"

\* layoutClasses of the left arrangement
layoutClasses ==
    [hideSidebar |-> ~sidebar.opened, openSidebar |-> sidebar.opened,
     withoutAnimation |-> sidebar.withoutAnimation, mobile |-> isMobile,
     noLeft |-> ~isLeft]

\* <div v-if="layoutClasses.mobile && layoutClasses.openSidebar" class="drawer-bg">
\* exists in the left arrangement only
DrawerBgShown ==
    Arrangement = "left" /\ layoutClasses.mobile /\ layoutClasses.openSidebar

\* <Hamburger v-if="!isTop || isMobile"> of the navigation bar
HamburgerShown == ~isTop \/ isMobile

\* the Sidebar is a child of the left and the mixed arrangement, and of the
\* navigation bar when isTop && !isMobile
SidebarShown ==
    \/ Arrangement \in {"left", "left-top"}
    \/ Arrangement = "top" /\ isTop /\ ~isMobile

ShellRec(op) == [op |-> op, opened |-> sidebar.opened, scrim |-> DrawerBgShown]

\* appStore.toggleSidebar(withoutAnimation)
toggleSidebarStore(sb, withoutAnimation) ==
    [opened |-> ~sb.opened, withoutAnimation |-> withoutAnimation]

\* appStore.closeSidebar(withoutAnimation)
closeSidebarStore(sb, withoutAnimation) ==
    [opened |-> FALSE, withoutAnimation |-> withoutAnimation]

InitShell ==
    /\ layoutMode \in LayoutModes
    /\ device \in Devices
    /\ sidebar \in [opened : BOOLEAN, withoutAnimation : {FALSE}]
    /\ shellLast = [op |-> "none", opened |-> sidebar.opened, scrim |-> FALSE]

\* the tab strip left alone, on one of the routes of the menu
InitShellRoute ==
    /\ routes = RouteTree(TRUE, FALSE)
    /\ route \in ShellRoutes
    /\ pending = NoNav
    /\ visitedViews = <<>>
    /\ cachedViews = <<>>
    /\ affixTags = <<>>
    /\ selectedTag = EmptyTag
    /\ visible = FALSE
    /\ pc = "init"
    /\ last = [op |-> "none", view |-> EmptyTag, vv |-> <<>>, cached |-> FALSE, tr |-> <<>>,
              rf |-> NoRefresh]

\* toggleSidebar() of the navigation bar, on a click on the hamburger
toggleSidebar ==
    /\ HamburgerShown
    /\ sidebar' = toggleSidebarStore(sidebar, FALSE)
    /\ shellLast' = ShellRec("toggleSidebar")
    /\ UNCHANGED <<layoutMode, device>>

\* the scrim without a click handler
handleClickOutside_Nothing ==
    /\ DrawerBgShown
    /\ sidebar' = sidebar
    /\ shellLast' = ShellRec("handleClickOutside")
    /\ UNCHANGED <<layoutMode, device>>

\* handleClickOutside() of the left arrangement, on a click on the scrim
handleClickOutside ==
    /\ DrawerBgShown
    /\ sidebar' = closeSidebarStore(sidebar, FALSE)
    /\ shellLast' = ShellRec("handleClickOutside")
    /\ UNCHANGED <<layoutMode, device>>

\* the user selects a layout mode in the settings panel
SetLayoutMode(mode) ==
    /\ layoutMode' = mode
    /\ shellLast' = ShellRec("setLayoutMode")
    /\ UNCHANGED <<device, sidebar>>

\* the viewport is resized: the device is derived from its width, and a
\* resize to the mobile width collapses the sidebar without animation
Resize(d) ==
    /\ device' = d
    /\ sidebar' = IF d = "mobile" THEN closeSidebarStore(sidebar, TRUE) ELSE sidebar
    /\ shellLast' = ShellRec("resize")
    /\ UNCHANGED layoutMode

\* the router arrives at another route
RouteChange(r) ==
    /\ route' = r
    /\ shellLast' = ShellRec("routeChange")
    /\ UNCHANGED <<layoutMode, device, sidebar>>

ShellNext ==
    \/ toggleSidebar /\ UNCHANGED <<tagsVars, themeVars>>
    \/ handleClickOutside /\ UNCHANGED <<tagsVars, themeVars>>
    \/ \E mode \in LayoutModes : SetLayoutMode(mode) /\ UNCHANGED <<tagsVars, themeVars>>
    \/ \E d \in Devices : Resize(d) /\ UNCHANGED <<tagsVars, themeVars>>
    \/ \E r \in ShellRoutes :
           RouteChange(r) /\ UNCHANGED <<routes, pending, visitedViews, cachedViews,
                                         affixTags, selectedTag, visible, pc, last, themeVars>>

ShellOnlyInit == InitShellRoute /\ ThemeIdle /\ InitShell

SpecShell == ShellOnlyInit /\ [][ShellNext]_vars

TypeOK ==
    /\ pc \in {"init", "ready"}
    /\ visible \in BOOLEAN
    /\ pending.kind \in {"none", "push", "replace"}

(***************************************************************************)
(* Properties                                                              *)
(***************************************************************************)
\* the three close affordances of a tab
CloseOps == {"clickMiddle", "clickCloseIcon", "menuClose"}

\* the last step ran closeSelectedTag(last.view)
CalledClose == last.op \in CloseOps /\ last.tr # <<>>

AffixPaths(views) == {v.path : v \in {w \in Range(views) : isAffix(w)}}

\* C1: in every reachable state VisitedViews holds at most one entry per
\* distinct path; registering a path that is already present leaves exactly
\* one entry with that path.
C1_OneViewPerPath ==
    \A i, j \in 1..Len(visitedViews) :
        visitedViews[i].path = visitedViews[j].path => i = j

C1_Witness ==
    /\ last.op = "register"
    /\ last.view.path \in PathSet(last.vv)
    /\ Cardinality({i \in 1..Len(visitedViews) : visitedViews[i].path = last.view.path}) = 1

C3_CloseOthersSurvivors ==
    last.op = "menuCloseOthers" =>
        PathSet(visitedViews) = {last.view.path} \cup AffixPaths(last.vv)

\* C4: after closeAll(view) the surviving VisitedViews are exactly the affixed
\* views: those that were affixed before the call, in their order, which are
\* the named affix tags of the route tree.
C4_CloseAllSurvivors ==
    last.op = "menuCloseAll" =>
        /\ visitedViews = SelectSeq(last.vv, isAffix)
        /\ PathSet(visitedViews) =
               {t.path : t \in {u \in Range(affixTags) : u.name # NoName}}

C4_Witness ==
    /\ last.op = "menuCloseAll"
    /\ visitedViews # <<>>
    /\ Len(last.vv) >= Len(visitedViews) + 2
    /\ ~isAffix(last.view)

\* C5: VisitedViews is in first-registration order: registering a path that
\* is already present leaves the sequence of paths as it was, and a path
\* that is new is appended at the end.
C5_RegistrationOrder ==
    last.op = "register" =>
        IF last.view.path \in PathSet(last.vv) \/ last.view.name = NoName
        THEN Paths(visitedViews) = Paths(last.vv)
        ELSE visitedViews = Append(last.vv, last.view)

C5_Witness ==
    /\ last.op = "register"
    /\ Len(visitedViews) >= 3
    /\ visitedViews[1].path = last.view.path
    /\ Paths(visitedViews) = Paths(last.vv)

\* C6: when closeSelectedTag(view) closes the active view and VisitedViews is
\* not empty afterwards, the one navigation issued is a push to the fullPath
\* (path plus query) of the last remaining entry.
C6_RedirectToLast ==
    (CalledClose /\ last.view.path = route.path /\ visitedViews # <<>>) =>
        /\ Navs(last.tr) = << Ev("push", Last(visitedViews).fullPath) >>
        /\ Last(visitedViews).fullPath =
               [path |-> Last(visitedViews).path, query |-> Last(visitedViews).query]

C6_Witness ==
    /\ last.op = "clickCloseIcon"
    /\ last.view.path = <<"kb", "list">>
    /\ route.path = <<"kb", "list">>
    /\ Len(visitedViews) >= 2
    /\ Navs(last.tr) = << Ev("push", [path |-> <<"kb", "edit">>, query |-> {<<"id", 1>>}]) >>

\* C7: a step that runs closeSelectedTag(view) issues exactly one navigation
\* when view is the active view, and otherwise issues none and leaves the
\* current route and the pending navigation as they were.
C7_NavigatesIffActive ==
    [][ CalledClose' =>
          IF last'.view.path = route.path
          THEN Len(Navs(last'.tr)) = 1 /\ pending' = [kind |-> "push", to |-> Navs(last'.tr)[1].to]
          ELSE Navs(last'.tr) = <<>> /\ pending' = pending /\ route' = route ]_vars

C7_Witness ==
    /\ CalledClose
    /\ last.view.path # route.path
    /\ last.view \in Range(last.vv)
    /\ Navs(last.tr) = <<>>
    /\ pending = NoNav

C7_WitnessActive ==
    /\ CalledClose
    /\ last.view.path = route.path
    /\ Len(Navs(last.tr)) = 1

\* C8: when a close operation redirects and VisitedViews is empty, the target
\* is "/redirect" + the closed view's path (with its query) if the closed
\* view is named "Dashboard", and "/" otherwise.
C8_RedirectWhenEmpty ==
    (last.op \in CloseOps \cup {"menuCloseAll"} /\ Navs(last.tr) # <<>> /\ visitedViews = <<>>) =>
        Navs(last.tr) = << Ev("push", IF last.view.name = HomeName
                                      THEN RedirectTo(last.view)
                                      ELSE Root) >>

C8_Witness ==
    /\ last.op \in CloseOps
    /\ visitedViews = <<>>
    /\ last.view.name = HomeName
    /\ Navs(last.tr) = << Ev("push", [path |-> <<"redirect", "dashboard">>, query |-> NoQuery]) >>

C8_WitnessRoot ==
    /\ last.op \in CloseOps \cup {"menuCloseAll"}
    /\ visitedViews = <<>>
    /\ last.view.name # HomeName
    /\ Navs(last.tr) = << Ev("push", Root) >>

\* the navigation the closeOne rule prescribes: the last surviving view, else home
CloseRuleTarget(view) ==
    IF visitedViews # <<>> THEN Last(visitedViews).fullPath
    ELSE IF view.name = HomeName THEN RedirectTo(view) ELSE Root

\* C9 (as claimed): closeAll(view) issues no navigation when the current
\* route path is the path of a surviving affixed view, and otherwise exactly
\* one navigation, to the target of the closeOne rule.
C9_CloseAllNavigation ==
    last.op = "menuCloseAll" =>
        IF route.path \in AffixPaths(visitedViews)
        THEN Navs(last.tr) = <<>>
        ELSE Navs(last.tr) = << Ev("push", CloseRuleTarget(last.view)) >>

\* C10 (as claimed): closeOthers(keep) issues a navigation to keep exactly
\* when the current route's path differs from keep's path, and issues it
\* before the other views are removed.
C10_CloseOthersNavigation ==
    last.op = "menuCloseOthers" =>
        /\ (Navs(last.tr) # <<>>) <=> (route.path # last.view.path)
        /\ Navs(last.tr) # <<>> =>
               /\ Navs(last.tr) = << Ev("push", last.view.fullPath) >>
               /\ Head(last.tr) = Ev("push", last.view.fullPath)

\* C11: immediately after refresh(view) for a cached view, CachedViews no
\* longer contains view.name, VisitedViews is unchanged and still holds
\* view.path exactly once, and exactly one navigation has been issued: a
\* replace to "/redirect" + view.path with view.query.
C11_RefreshEffect ==
    (last.op = "menuRefresh" /\ last.cached) =>
        /\ last.view.name \notin Range(cachedViews)
        /\ visitedViews = last.vv
        /\ Cardinality({i \in 1..Len(visitedViews) : visitedViews[i].path = last.view.path}) = 1
        /\ Navs(last.tr) = << Ev("replace", [path |-> <<"redirect">> \o last.view.path,
                                             query |-> last.view.query]) >>

C11_Witness ==
    /\ last.op = "menuRefresh"
    /\ last.cached
    /\ last.view.query # NoQuery
    /\ Len(visitedViews) >= 2
    /\ pending.kind = "replace"

\* the registered theme classes on the document root
RegisteredOnRoot == rootClasses \cap ThemeNames

\* C12: once a valid theme name has been applied and the class effect has
\* run, exactly one registered theme class is on the document root, and it is
\* the active theme name, whatever was applied before.
C12_ThemeExclusive ==
    (themePc = "watching" /\ ~effectDue /\ activeThemeName \in ThemeNames) =>
        RegisteredOnRoot = {activeThemeName}

C12_Witness ==
    /\ themeLast.op = "effect"
    /\ themeLast.classes \cap ThemeNames = {"dark-blue"}
    /\ activeThemeName = "dark"
    /\ RegisteredOnRoot = {"dark"}

\* C13 (as claimed): once the handler of apply(name) with an unregistered
\* name has run (the active theme was a registered one before), the active
\* theme is the default "normal", the class the effect then puts on the root.
C13_BogusFallsBack ==
    (/\ themeLast.value \notin ThemeNames
     /\ themeLast.before \in ThemeNames
     /\ \/ themeLast.op = "handler"
        \/ themeLast.op = "setTheme" /\ ~hasViewTransition) =>
        activeThemeName = DEFAULT_THEME_NAME

\* C14 (as claimed): at startup the initial activeThemeName is a registered
\* theme name for every persisted value; an unknown value yields "normal".
C14_InitialThemeRegistered ==
    themeLast.op = "load" => activeThemeName \in ThemeNames

\* C15 (as claimed): when setTheme returns, activeThemeName equals the
\* requested theme, with and without document.startViewTransition.
C15_CommittedOnReturn ==
    themeLast.op = "setTheme" => activeThemeName = themeLast.value

\* C15 (amended): without document.startViewTransition activeThemeName equals
\* the requested theme when setTheme returns; with it setTheme returns with
\* activeThemeName unchanged and the handler queued, and activeThemeName
\* equals the requested theme once the browser has called the handler.
C15_CommitPoint ==
    /\ themeLast.op = "setTheme" =>
           IF hasViewTransition
           THEN /\ activeThemeName = themeLast.before
                /\ transitions # <<>>
                /\ Last(transitions) = themeLast.value
           ELSE activeThemeName = themeLast.value
    /\ themeLast.op = "handler" => activeThemeName = themeLast.value

C15_Witness ==
    /\ themeLast.op = "setTheme"
    /\ hasViewTransition
    /\ themeLast.value = "dark"
    /\ activeThemeName = "normal"
    /\ transitions = << "dark" >>

C15_WitnessSync ==
    /\ themeLast.op = "setTheme"
    /\ ~hasViewTransition
    /\ themeLast.before = "normal"
    /\ activeThemeName = "dark"

\* the views of VisitedViews that the last step created
Created == {v \in Range(visitedViews) : v.path \notin PathSet(last.vv)}

\* C16: registering a route without a name changes neither VisitedViews nor
\* CachedViews, the set-up registers no affix tag without a name, and so no
\* entry of either collection is ever un-named.
C16_UnnamedNotRegistered ==
    [][ /\ (last'.op = "register" /\ last'.view.name = NoName) =>
               (visitedViews' = visitedViews /\ cachedViews' = cachedViews)
        /\ last'.op \in {"setup", "remount"} =>
               \A i \in 1..Len(affixTags') :
                   (affixTags'[i].name = NoName /\ affixTags'[i].path # route.path) =>
                       affixTags'[i].path \notin PathSet(visitedViews')
        /\ \A v \in Range(visitedViews') : v.name # NoName
        /\ NoName \notin Range(cachedViews') ]_vars

C16_Witness ==
    /\ last.op = "register"
    /\ last.view.name = NoName
    /\ last.view.path = <<"notice">>
    /\ visitedViews = last.vv
    /\ visitedViews # <<>>
    /\ \E i \in 1..Len(affixTags) :
           affixTags[i].name = NoName /\ affixTags[i].path \notin PathSet(visitedViews)

\* C17 (as claimed): closeSelectedTag(view) for a view that is not in the
\* registry changes neither VisitedViews nor CachedViews and issues no
\* navigation.
C17_CloseAbsentIsNoOp ==
    (CalledClose /\ last.view.path \notin PathSet(last.vv)) =>
        /\ visitedViews = last.vv
        /\ Navs(last.tr) = <<>>

\* C17, the collections alone: closing an absent view changes neither of them
C17_CloseAbsentKeepsStore ==
    [][ (CalledClose' /\ last'.view.path \notin PathSet(visitedViews)) =>
            (visitedViews' = visitedViews /\ cachedViews' = cachedViews) ]_vars

\* C19 (as claimed): whenever a VisitedView is created, by the seeding of the
\* set-up or by a registration, its name is in CachedViews after that step.
C19_CachedOnCreation ==
    last.op \in {"setup", "register"} =>
        \A v \in Created : v.name \in Range(cachedViews)

\* C19 (amended): a view created by a navigation-driven registration has its
\* name in CachedViews after that step; the set-up caches the current route
\* only, not the affix tags it seeds; no other step creates a view.
C19_CachedOnRegister ==
    /\ last.op \in {"register", "remount"} =>
           /\ \A v \in Created : v.name \in Range(cachedViews)
           /\ last.view.name # NoName => last.view.name \in Range(cachedViews)
    /\ last.op = "setup" =>
           /\ Range(cachedViews) = {route.name} \ {NoName}
           /\ \A v \in Created : v.path # route.path => v.name \notin Range(cachedViews)
    /\ last.op \notin {"setup", "remount", "register"} => Created = {}

C19_Witness ==
    /\ last.op = "setup"
    /\ Len(visitedViews) = 2
    /\ isAffix(visitedViews[1])
    /\ visitedViews[1].name \notin Range(cachedViews)
    /\ visitedViews[2].path = route.path
    /\ cachedViews = << visitedViews[2].name >>

C19_WitnessRegister ==
    /\ last.op = "register"
    /\ Created = {last.view}
    /\ ~last.cached
    /\ last.view.name \in Range(cachedViews)

(***************************************************************************)
(* C18: filterAffixTags returns, for every route flagged affix at any      *)
(* depth, a tag whose path is the resolution of all its ancestors' paths   *)
(* followed by its own, in depth-first order, and no tag for a route that  *)
(* is not flagged affix.                                                   *)
(***************************************************************************)
\* the tags of the claim: the walk of filterAffixTags with the base path
\* accumulated over all ancestors
RECURSIVE AccumulatedAffixTags(_, _)
AccumulatedAffixTags(rs, basePath) ==
    IF rs = <<>> THEN <<>>
    ELSE LET r == Head(rs)
             tagPath == PathResolve(basePath, r.path)
             own == IF r.affix
                    THEN << [path |-> tagPath,
                             fullPath |-> [path |-> tagPath, query |-> NoQuery],
                             name |-> r.name, query |-> NoQuery, affix |-> TRUE] >>
                    ELSE <<>>
         IN own \o AccumulatedAffixTags(r.children, Abs(tagPath))
                \o AccumulatedAffixTags(Tail(rs), basePath)

C18_AccumulatedBasePath ==
    pc = "filtered" => affixTags = AccumulatedAffixTags(routes, Abs(<<>>))

\* what does hold at every depth: the flagged routes, and only they, are
\* returned, in depth-first order
C18_FlaggedInOrder ==
    pc = "filtered" =>
        [i \in 1..Len(affixTags) |-> affixTags[i].name]
          = [i \in 1..Len(AccumulatedAffixTags(routes, Abs(<<>>))) |->
                AccumulatedAffixTags(routes, Abs(<<>>))[i].name]

(***************************************************************************)
(* C20 (as claimed): initTags runs exactly once per session and before any *)
(* navigation-driven register, so that the affixed seed views precede      *)
(* every navigation-registered view in VisitedViews.                       *)
(***************************************************************************)
\* a step that runs initTags starts from a tab strip that was never set up
C20_SeededOncePerSession ==
    [][ last'.op \in {"setup", "remount"} => pc = "init" ]_vars

\* C20 (amended): initTags runs once per set-up of a tab strip, each time
\* before that set-up's own register; a later run finds every seed view in
\* place and creates at most the view of the current route, and the affixed
\* seed views precede every navigation-registered view at all times.
C20_SeedsPrecede ==
    /\ \A i, j \in 1..Len(visitedViews) :
           (i < j /\ visitedViews[j].affix) => visitedViews[i].affix
    /\ pc = "ready" =>
           \A i \in 1..Len(affixTags) :
               affixTags[i].name # NoName => affixTags[i].path \in PathSet(visitedViews)
    /\ last.op = "remount" => \A v \in Created : v.path = route.path /\ ~v.affix

C20_Witness ==
    /\ last.op = "remount"
    /\ Len(last.vv) >= 2
    /\ visitedViews = last.vv
    /\ visitedViews[1].affix
    /\ ~visitedViews[2].affix

\* the first set-up on a route that is not pinned: the seed comes first
C20_WitnessSetup ==
    /\ last.op = "setup"
    /\ route.path = <<"kb", "list">>
    /\ Len(visitedViews) = 2
    /\ visitedViews[1].affix
    /\ visitedViews[2].path = route.path

(***************************************************************************)
(* C21: after every change of the active theme, once the effect has run,   *)
(* the stored value equals activeThemeName; the write is made by the       *)
(* effect that the change schedules, not by the step that made the change. *)
(***************************************************************************)
C21_PersistedByEffect ==
    /\ []((themePc = "watching" /\ ~effectDue) => storage = setActiveThemeName(activeThemeName))
    /\ [][ /\ activeThemeName' # activeThemeName => effectDue'
           /\ storage' # storage => themeLast'.op \in {"initTheme", "effect"}
           /\ themeLast'.op \in {"setTheme", "handler"} => storage' = storage ]_vars

C21_Witness ==
    /\ themeLast.op = "effect"
    /\ themeLast.classes \cap ThemeNames = {"normal"}
    /\ themeLast.value = "dark"
    /\ activeThemeName = "dark"
    /\ storage = "dark"

(***************************************************************************)
(* C22: when a theme is applied the other registered theme classes are     *)
(* removed from the root before the new class is added, so at no step,     *)
(* the one between the two statements of the effect included, does the     *)
(* root carry two registered theme classes.                                *)
(***************************************************************************)
C22_NeverTwoThemeClasses ==
    /\ Cardinality(rootClasses \cap ThemeNames) <= 1
    /\ Cardinality(themeLast.mid \cap ThemeNames) <= 1
    /\ themeLast.op \in {"initTheme", "effect"} =>
           /\ themeLast.mid \cap ThemeNames \subseteq {themeLast.value}
           /\ rootClasses = themeLast.mid \cup {themeLast.value}

\* the effect runs with another registered theme's class still on the root
C22_Witness ==
    /\ themeLast.op = "effect"
    /\ themeLast.classes \cap ThemeNames = {"dark"}
    /\ themeLast.value = "dark-blue"
    /\ themeLast.mid \cap ThemeNames = {}
    /\ rootClasses \cap ThemeNames = {"dark-blue"}

(***************************************************************************)
(* C23 (as claimed): the sidebar's active menu key is the route's          *)
(* meta.activeMenu when that override is present, and the route's own path *)
(* otherwise.                                                              *)
(***************************************************************************)
C23_OverrideWhenPresent ==
    activeMenu = IF route.activeMenu # Undefined
                 THEN route.activeMenu
                 ELSE PathString(route.path)

\* C23 (amended): the active menu key is meta.activeMenu when the override is
\* a non-empty string, and the route's own path when it is not set or empty.
C23_OverrideWhenNonEmpty ==
    /\ route.activeMenu.kind = "path" => activeMenu = route.activeMenu
    /\ route.activeMenu = Undefined => activeMenu = PathString(route.path)
    /\ route.activeMenu = EmptyString => activeMenu = PathString(route.path)
    /\ activeMenu.kind = "path"

\* a detail page highlights its parent listing
C23_Witness ==
    /\ shellLast.op = "routeChange"
    /\ route.path = <<"kb", "edit">>
    /\ route.activeMenu = PathString(<<"kb", "list">>)
    /\ activeMenu = PathString(<<"kb", "list">>)

C23_WitnessEmpty ==
    /\ shellLast.op = "routeChange"
    /\ route.path = <<"kb", "edit">>
    /\ route.activeMenu = EmptyString
    /\ activeMenu = PathString(<<"kb", "edit">>)

(***************************************************************************)
(* C24 (as claimed): in top-bar layout mode the menu is horizontal and not *)
(* collapsed for every value of sidebar.opened and every device; outside   *)
(* top-bar mode the menu is collapsed exactly when the sidebar is not      *)
(* opened.                                                                 *)
(***************************************************************************)
C24_TopAlwaysHorizontal ==
    /\ isTop => (MenuMode = "horizontal" /\ ~MenuCollapse)
    /\ ~isTop => (MenuCollapse <=> ~sidebar.opened)

\* C24 (amended): in top-bar layout mode the menu is never collapsed, and it
\* is horizontal on a desktop and vertical (the drawer of the left
\* arrangement) on a mobile device; outside top-bar mode it is vertical and
\* collapsed exactly when the sidebar is not opened.
C24_TopHorizontalOnDesktop ==
    /\ SidebarShown
    /\ isTop => (~MenuCollapse /\ (MenuMode = "horizontal" <=> ~isMobile))
    /\ (isTop /\ isMobile) => (MenuMode = "vertical" /\ Arrangement = "left")
    /\ ~isTop => (MenuMode = "vertical" /\ (MenuCollapse <=> ~sidebar.opened))

C24_Witness ==
    /\ shellLast.op = "resize"
    /\ isTop
    /\ isMobile
    /\ ~sidebar.opened
    /\ MenuMode = "vertical"
    /\ ~MenuCollapse

C24_WitnessDesktop ==
    /\ shellLast.op = "setLayoutMode"
    /\ isTop
    /\ ~isMobile
    /\ ~sidebar.opened
    /\ MenuMode = "horizontal"
    /\ ~MenuCollapse

(***************************************************************************)
(* C25: on a mobile device with the sidebar opened the shell shows a scrim *)
(* for every layout mode, and a click on the scrim closes the sidebar.     *)
(***************************************************************************)
C25_MobileScrim ==
    /\ (isMobile /\ sidebar.opened) => DrawerBgShown
    /\ DrawerBgShown => (isMobile /\ sidebar.opened)
    /\ shellLast.op = "handleClickOutside" =>
           (shellLast.scrim /\ shellLast.opened /\ ~sidebar.opened /\ ~DrawerBgShown)

C25_Witness ==
    /\ shellLast.op = "handleClickOutside"
    /\ layoutMode = "top"
    /\ isMobile
    /\ shellLast.scrim
    /\ ~sidebar.opened

C25_WitnessShown ==
    /\ layoutMode = "left-top"
    /\ isMobile
    /\ sidebar.opened
    /\ DrawerBgShown

(***************************************************************************)
(* C26 (as claimed): after refresh(view), once the redirect navigation it  *)
(* issued has completed and the route listener has run, CachedViews        *)
(* contains view.name again and VisitedViews is the sequence it was before *)
(* the refresh.                                                            *)
(***************************************************************************)
C26_RefreshRestores ==
    last.rf.stage = 3 =>
        /\ last.rf.view.name \in Range(cachedViews)
        /\ visitedViews = last.rf.vv

\* what holds for a view that was in the registry when it was refreshed
C26_RefreshRestoresPresent ==
    /\ last.rf.stage = 2 =>
           (IsRedirect([path |-> route.path]) /\ visitedViews = last.rf.vv
            /\ last.rf.view.name \notin Range(cachedViews))
    /\ (last.rf.stage = 3 /\ last.rf.view.path \in PathSet(last.rf.vv)) =>
           /\ route.path = last.rf.view.path
           /\ last.rf.view.name \in Range(cachedViews)
           /\ visitedViews = last.rf.vv

C26_WitnessPresent ==
    /\ last.rf.stage = 3
    /\ last.rf.view.path \in PathSet(last.rf.vv)
    /\ Len(visitedViews) >= 2
    /\ last.rf.view.name \in Range(cachedViews)

\* a tab closed while its context menu stayed open is refreshed from that
\* menu: the view is registered again
C26_ClosedTabReopened ==
    /\ last.rf.stage = 3
    /\ Len(last.rf.vv) = 1
    /\ last.rf.vv[1].affix
    /\ Len(visitedViews) = 2
    /\ visitedViews[2].path = <<"kb", "list">>
    /\ last.rf.view.path = <<"kb", "list">>

(***************************************************************************)
(* C27: in every quiescent state (the tab strip is set up and no           *)
(* navigation is under way) a current route that has a name has a tab: a   *)
(* view of VisitedViews has the current route's path.                      *)
(***************************************************************************)
Quiescent == pc = "ready" /\ pending = NoNav

C27_NamedRouteHasTab ==
    (Quiescent /\ route.name # NoName) => route.path \in PathSet(visitedViews)

\* a tab other than the current one was closed: nothing is under way and the
\* current route keeps its tab
C27_Witness ==
    /\ CalledClose
    /\ Quiescent
    /\ route.name # NoName
    /\ last.view.path # route.path
    /\ Len(visitedViews) = Len(last.vv) - 1
    /\ route.path \in PathSet(visitedViews)

\* the router has arrived at the home page with the tab strip empty, as after
\* the last tab was closed
C27_WitnessArrived ==
    /\ Quiescent
    /\ last.op = "register"
    /\ last.vv = <<>>
    /\ route.name = HomeName
    /\ Len(visitedViews) = 1
    /\ visitedViews[1].path = route.path

(***************************************************************************)
(* C28 (as claimed): in every reachable state every name in CachedViews is *)
(* the name of some entry of VisitedViews, and CachedViews holds no name   *)
(* twice.                                                                  *)
(***************************************************************************)
VisitedNames == {v.name : v \in Range(visitedViews)}

C28_CachedHaveTabs ==
    /\ Range(cachedViews) \subseteq VisitedNames
    /\ Cardinality(Range(cachedViews)) = Len(cachedViews)

\* a cached view's tab was closed while other views stay cached
C28_Witness ==
    /\ CalledClose
    /\ last.cached
    /\ last.view.path \notin PathSet(visitedViews)
    /\ last.view.name \notin Range(cachedViews)
    /\ cachedViews # <<>>
    /\ Len(visitedViews) > Len(cachedViews)

(***************************************************************************)
(* C29: for every click position inside the viewport the squared reveal    *)
(* radius setTheme computes, max(x, W-x)^2 + max(y, H-y)^2, is the largest *)
(* of the squared distances from the click to the four viewport corners.   *)
(***************************************************************************)
Corners == {<<cx, cy>> : cx \in {0, InnerWidth}, cy \in {0, InnerHeight}}

DistanceSquared(x, y, c) == (x - c[1]) * (x - c[1]) + (y - c[2]) * (y - c[2])

C29_RadiusReachesFarthestCorner ==
    themeLast.op = "setTheme" =>
        /\ \A c \in Corners : DistanceSquared(cssVars.x, cssVars.y, c) <= cssVars.r2
        /\ \E c \in Corners : DistanceSquared(cssVars.x, cssVars.y, c) = cssVars.r2

\* a click on the left edge at the bottom: the farthest corner is the top right
C29_Witness ==
    /\ themeLast.op = "setTheme"
    /\ cssVars.x = 0
    /\ cssVars.y = InnerHeight
    /\ cssVars.r2 = InnerWidth * InnerWidth + InnerHeight * InnerHeight

\* a click off the centre, where the two axes pick different sides
C29_WitnessInside ==
    /\ themeLast.op = "setTheme"
    /\ cssVars.x = InnerWidth - 1
    /\ cssVars.y = 0
    /\ cssVars.r2 = DistanceSquared(cssVars.x, cssVars.y, <<0, InnerHeight>>)

====
